---- MODULE Spec2Model ----
(***************************************************************************)
(* Model of collections.cpp: defaultdict, Counter and ChainMap.            *)
(*                                                                         *)
(* The three adapters are independent objects, so each gets its own        *)
(* specification over the shared variable tuple:                           *)
(*   SpecDD       defaultdict<K,int> with a factory f                      *)
(*   SpecCounter  Counter<T>: operator[], update, elements, most_common    *)
(*   SpecCombine  Counter<T>: += -= + - with a second Counter              *)
(*   SpecChain    ChainMap over 1..MaxLayers std::map<K,int> layers        *)
(* A mapping is a function whose DOMAIN is the set of stored keys.         *)
(***************************************************************************)
EXTENDS Integers, Sequences, FiniteSets, TLC

VARIABLES dd, calls, ddRet,        \* defaultdict, factory invocations, last result
          ct, other, saved, ctRet, \* Counter, second Counter, history, last result
          layers, handle, cmRet    \* ChainMap layers (front first), V& handle, last result

vars == <<dd, calls, ddRet, ct, other, saved, ctRet, layers, handle, cmRet>>

ddVars == <<dd, calls, ddRet>>
ctVars == <<ct, other, saved, ctRet>>
cmVars == <<layers, handle, cmRet>>

\* ---------------------------------------------------------------- bounds
MaxCalls == 3      \* factory invocations explored
MaxVal == 2        \* defaultdict values are 0..MaxVal
CntBound == 2      \* Counter counts are -CntBound..CntBound
MaxUpd == 2        \* length of an update() list
MaxN == 4          \* largest n passed to most_common
MaxLayers == 3     \* ChainMap depth explored

Keys == {"a", "b", "c"}          \* key_type values (char in main)
ChainKeys == {"a", "b"}
ChainVals == {0, 1}               \* mapped values of the ChainMap layers
OtherKeys == {"a", "b"}          \* keys of the right-hand Counter
Vals == 0..MaxVal
Counts == (0 - CntBound)..CntBound
IntDefault == 0                  \* int() : value-initialised mapped_type
None == 0 - 1                    \* "no value" marker in result records
NoKey == "-"

\* ------------------------------------------------- the underlying mapping
EmptyMap == [x \in {} |-> 0]

AllMaps(K, V) == UNION {[D -> V] : D \in SUBSET K}

\* m[k] = v  (insert or overwrite)
Put(m, k, v) == [x \in DOMAIN m \cup {k} |-> IF x = k THEN v ELSE m[x]]

\* m.erase(k)
MapErase(m, k) == [x \in DOMAIN m \ {k} |-> m[x]]

\* std::map / std::unordered_map operator[]: value-initialises a missing key
MapIndex(m, k) == IF k \in DOMAIN m THEN m ELSE Put(m, k, IntDefault)

\* one.insert(first, last): keys already in `one` keep their value
InsertRangeOverwrite(one, m) ==
    [x \in DOMAIN one \cup DOMAIN m |-> IF x \in DOMAIN m THEN m[x] ELSE one[x]]
InsertRange(one, m) ==
    [x \in DOMAIN one \cup DOMAIN m |-> IF x \in DOMAIN one THEN one[x] ELSE m[x]]

\* =========================================================== defaultdict
DDIdleRet == [op |-> "none", key |-> NoKey, val |-> None, fval |-> None, called |-> 0]

\* operator[]: try at(k); on out_of_range store f() under k.
\* fv is the value this invocation of f would produce.
DDIndexEager(m, k, fv) ==
    [map |-> Put(m, k, fv), val |-> fv, called |-> 1]
DDIndex(m, k, fv) ==
    IF k \in DOMAIN m
    THEN [map |-> m, val |-> m[k], called |-> 0]
    ELSE [map |-> Put(m, k, fv), val |-> fv, called |-> 1]

\* at(k) forwards to operator[]
DDAt(m, k, fv) == DDIndex(m, k, fv)

DDLookup(opname, r, k, fv) ==
    /\ calls + r.called <= MaxCalls
    /\ dd' = r.map
    /\ calls' = calls + r.called
    /\ ddRet' = [op |-> opname, key |-> k, val |-> r.val,
                 fval |-> IF r.called = 1 THEN fv ELSE None, called |-> r.called]

DDOpIndex(k, fv) == DDLookup("index", DDIndex(dd, k, fv), k, fv) /\ UNCHANGED <<ctVars, cmVars>>

DDOpAt(k, fv) == DDLookup("at", DDAt(dd, k, fv), k, fv) /\ UNCHANGED <<ctVars, cmVars>>

\* dd[k] = v : operator[] (materialising k if missing), then the store
DDOpAssign(k, fv, v) ==
    LET r == DDIndex(dd, k, fv) IN
    /\ calls + r.called <= MaxCalls
    /\ dd' = Put(r.map, k, v)
    /\ calls' = calls + r.called
    /\ ddRet' = [op |-> "assign", key |-> k, val |-> v,
                 fval |-> IF r.called = 1 THEN fv ELSE None, called |-> r.called]
    /\ UNCHANGED <<ctVars, cmVars>>

\* inherited unordered_map::erase
DDOpErase(k) ==
    /\ dd' = MapErase(dd, k)
    /\ ddRet' = [op |-> "erase", key |-> k,
                 val |-> IF k \in DOMAIN dd THEN 1 ELSE 0, fval |-> None, called |-> 0]
    /\ UNCHANGED <<calls, ctVars, cmVars>>

\* ---- idle values of the objects a specification does not exercise
CtIdleRet == [op |-> "none", key |-> NoKey, n |-> 0, val |-> 0, seq |-> <<>>, oob |-> FALSE, after |-> "none", map |-> EmptyMap]
CmIdleRet == [op |-> "none", key |-> NoKey, idx |-> 0, val |-> None, err |-> FALSE, map |-> EmptyMap, src |-> "none"]

DDIdle == dd = EmptyMap /\ calls = 0 /\ ddRet = DDIdleRet
NoSaved == [a |-> EmptyMap, b |-> EmptyMap]
CtIdle == ct = EmptyMap /\ other = EmptyMap /\ saved = NoSaved /\ ctRet = CtIdleRet
CmIdle == layers = <<EmptyMap>> /\ handle = NoKey /\ cmRet = CmIdleRet

\* defaultdict(f) or defaultdict(f, il)
InitDD ==
    /\ dd \in AllMaps(Keys, Vals)
    /\ calls = 0
    /\ ddRet = DDIdleRet
    /\ CtIdle /\ CmIdle

NextDD ==
    \/ \E k \in Keys, fv \in Vals : DDOpIndex(k, fv)
    \/ \E k \in Keys, fv \in Vals : DDOpAt(k, fv)
    \/ \E k \in Keys, fv \in Vals, v \in Vals : DDOpAssign(k, fv, v)
    \/ \E k \in Keys : DDOpErase(k)

SpecDD == InitDD /\ [][NextDD]_vars

\* C10: a defaultdict lookup (operator[] or at) leaves the key present and
\* removes no key; on a present key it returns the stored value, does not
\* call the factory and does not change the mapping; on an absent key it
\* calls the factory exactly once, stores its result under the key (all
\* other entries untouched) and returns it.
C10_DefaultLookup ==
    [][ddRet'.op \in {"index", "at"} =>
        LET k == ddRet'.key IN
        /\ k \in DOMAIN dd'
        /\ DOMAIN dd \subseteq DOMAIN dd'
        /\ k \in DOMAIN dd =>
              /\ dd' = dd
              /\ calls' = calls
              /\ ddRet'.val = dd[k]
        /\ k \notin DOMAIN dd =>
              /\ calls' = calls + 1
              /\ DOMAIN dd' = DOMAIN dd \cup {k}
              /\ \A x \in DOMAIN dd : dd'[x] = dd[x]
              /\ dd'[k] = ddRet'.fval
              /\ ddRet'.val = ddRet'.fval]_vars

\* a second key has been materialised by at(), with a non-zero factory value
W_C10 ==
    /\ ddRet.op = "at"
    /\ ddRet.called = 1
    /\ calls = 2
    /\ ddRet.key \in DOMAIN dd
    /\ dd[ddRet.key] = ddRet.fval
    /\ ddRet.fval > 0

\* =============================================================== Counter
\* count of k with an absent key read as 0
Cnt(m, k) == IF k \in DOMAIN m THEN m[k] ELSE 0

InBounds(m) == \A k \in DOMAIN m : m[k] \in Counts

\* the entries of m in one of the iteration orders unordered_map may use
Orders(m) ==
    LET n == Cardinality(DOMAIN m) IN
    {[i \in 1..n |-> [first |-> f[i], second |-> m[f[i]]]] :
        f \in {g \in [1..n -> DOMAIN m] : \A i, j \in 1..n : g[i] = g[j] => i = j}}

\* ---- elements(): v is the entry sequence, positions 1..Len(v), end = Len(v)+1
RECURSIVE SkipNonPositive(_, _)
SkipNonPositive(v, i) ==
    IF i /= Len(v) + 1 /\ v[i].second <= 0 THEN SkipNonPositive(v, i + 1) ELSE i

\* elements(): i = begin(); while (i != j && i->second <= 0) ++i;
ElementsBeginNoSkip(v) == 1
ElementsBegin(v) == SkipNonPositive(v, 1)

\* Iter(i, e): count(i == e ? 0 : i->second)
IterNew(v, i) == [curr |-> i, count |-> IF i = Len(v) + 1 THEN 0 ELSE v[i].second]

\* while (count <= 0 && ++curr != end) count = curr->second;
RECURSIVE IterAdvance(_, _)
IterAdvance(v, it) ==
    IF it.count <= 0
    THEN IF it.curr + 1 /= Len(v) + 1
         THEN IterAdvance(v, [curr |-> it.curr + 1, count |-> v[it.curr + 1].second])
         ELSE [curr |-> it.curr + 1, count |-> it.count]
    ELSE it

\* Iter::operator++ : --count, then the loop
IterInc(v, it) == IterAdvance(v, [curr |-> it.curr, count |-> it.count - 1])

\* for (c : elements()) : from begin while it != {end, end}, yielding *it
RECURSIVE Traverse(_, _, _)
Traverse(v, it, out) ==
    IF it.curr = Len(v) + 1 THEN out
    ELSE Traverse(v, IterInc(v, it), Append(out, v[it.curr].first))

Elements(v) == Traverse(v, IterNew(v, ElementsBegin(v)), <<>>)

\* ---- most_common(): heap selection on the entry vector
CmpGreater(l, r) == l.second > r.second
Cmp(l, r) == l.second < r.second

\* 0-based access to a vector held as a sequence
At0(s, i) == s[i + 1]
Set0(s, i, x) == [s EXCEPT ![i + 1] = x]

\* std::__push_heap
RECURSIVE PushHeap(_, _, _, _)
PushHeap(s, hole, top, value) ==
    LET parent == (hole - 1) \div 2 IN
    IF hole > top /\ Cmp(At0(s, parent), value)
    THEN PushHeap(Set0(s, hole, At0(s, parent)), parent, top, value)
    ELSE Set0(s, hole, value)

\* the descent loop of std::__adjust_heap
RECURSIVE SiftDown(_, _, _, _)
SiftDown(s, hole, child, len) ==
    IF child < (len - 1) \div 2
    THEN LET c1 == 2 * (child + 1)
             c2 == IF Cmp(At0(s, c1), At0(s, c1 - 1)) THEN c1 - 1 ELSE c1
         IN SiftDown(Set0(s, hole, At0(s, c2)), c2, c2, len)
    ELSE [s |-> s, hole |-> hole, child |-> child]

\* std::__adjust_heap(first, holeIndex, len, value), len >= 1
AdjustHeap(s, hole, len, value) ==
    LET d == SiftDown(s, hole, hole, len)
        e == IF len % 2 = 0 /\ len >= 2 /\ d.child = (len - 2) \div 2
             THEN [s |-> Set0(d.s, d.hole, At0(d.s, 2 * (d.child + 1) - 1)),
                   hole |-> 2 * (d.child + 1) - 1]
             ELSE [s |-> d.s, hole |-> d.hole]
    IN PushHeap(e.s, e.hole, hole, value)

\* std::make_heap(v.begin(), v.end(), cmp)
RECURSIVE MakeHeapFrom(_, _)
MakeHeapFrom(s, parent) ==
    LET t == AdjustHeap(s, parent, Len(s), At0(s, parent)) IN
    IF parent = 0 THEN t ELSE MakeHeapFrom(t, parent - 1)

MakeHeap(s) == IF Len(s) < 2 THEN s ELSE MakeHeapFrom(s, (Len(s) - 2) \div 2)

\* std::pop_heap(v.begin(), v.begin() + len, cmp)
PopHeap(s, len) ==
    IF len > 1
    THEN AdjustHeap(Set0(s, len - 1, At0(s, 0)), 0, len - 1, At0(s, len - 1))
    ELSE s

\* for (int i = 0; i < n; ++i) pop_heap(v.begin(), v.end() - i, cmp);
RECURSIVE PopLoop(_, _, _)
PopLoop(s, i, n) == IF i < n THEN PopLoop(PopHeap(s, Len(s) - i), i + 1, n) ELSE s

\* {reverse_iterator(v.end()), reverse_iterator(v.end() - n)}, n <= size
ReverseTail(s, n) == [i \in 1..n |-> s[Len(s) + 1 - i]]

\* most_common(n) on entry vector v, for 0 <= n <= v.size()
MostCommon(v, n0) ==
    LET n == IF n0 = 0 THEN Len(v) ELSE n0 IN
    ReverseTail(PopLoop(MakeHeap(v), 0, n), n)

\* what the reads before v.begin() can deliver when n > v.size()
Garbage == {[first |-> NoKey, second |-> c] : c \in {0, CntBound}}

\* ---- mutators
\* (*this)[k] : inherited unordered_map::operator[] (at is deleted)
CounterIndex(m, k) == MapIndex(m, k)

\* update(l): for (t : l) ++(*this)[t];
RECURSIVE Update(_, _)
Update(m, l) ==
    IF l = <<>> THEN m
    ELSE LET m1 == CounterIndex(m, Head(l)) IN
         Update(Put(m1, Head(l), m1[Head(l)] + 1), Tail(l))

\* operator+= : for (t : c) (*this)[t.first] += t.second;
RECURSIVE IAddOver(_, _, _)
IAddOver(a, c, ks) ==
    IF ks = {} THEN a
    ELSE LET k == CHOOSE x \in ks : TRUE
             a1 == CounterIndex(a, k)
         IN IAddOver(Put(a1, k, a1[k] + c[k]), c, ks \ {k})

IAddExisting(a, c) == [x \in DOMAIN a |-> a[x] + Cnt(c, x)]
IAdd(a, c) == IAddOver(a, c, DOMAIN c)

\* operator-= : for (t : c) (*this)[t.first] -= t.second;
RECURSIVE ISubOver(_, _, _)
ISubOver(a, c, ks) ==
    IF ks = {} THEN a
    ELSE LET k == CHOOSE x \in ks : TRUE
             a1 == CounterIndex(a, k)
         IN ISubOver(Put(a1, k, a1[k] - c[k]), c, ks \ {k})

ISub(a, c) == ISubOver(a, c, DOMAIN c)

\* total(): s = 0; for (t : *this) s += t.second;
RECURSIVE SumOver(_, _)
SumOver(m, ks) ==
    IF ks = {} THEN 0
    ELSE LET k == CHOOSE x \in ks : TRUE IN m[k] + SumOver(m, ks \ {k})

Total(m) == SumOver(m, DOMAIN m)

CtRet(opname, k, n, val, seq, oob, map) ==
    [op |-> opname, key |-> k, n |-> n, val |-> val, seq |-> seq, oob |-> oob,
     after |-> IF opname = "isub" /\ ctRet.op = "iadd" THEN "iadd" ELSE "none",
     map |-> map]

\* int x = ct[k];
CtOpLookupFind(k) ==
    /\ ctRet' = CtRet("lookup", k, 0, Cnt(ct, k), <<>>, FALSE, EmptyMap)
    /\ UNCHANGED <<ct, other, saved, ddVars, cmVars>>
CtOpLookup(k) ==
    /\ ct' = CounterIndex(ct, k)
    /\ ctRet' = CtRet("lookup", k, 0, ct'[k], <<>>, FALSE, EmptyMap)
    /\ UNCHANGED <<other, saved, ddVars, cmVars>>

CtOpUpdate(l) ==
    /\ InBounds(Update(ct, l))
    /\ ct' = Update(ct, l)
    /\ ctRet' = CtRet("update", NoKey, 0, 0, l, FALSE, EmptyMap)
    /\ UNCHANGED <<other, saved, ddVars, cmVars>>

\* for (c : ct.elements()) ...
CtOpElements ==
    /\ \E v \in Orders(ct) :
          ctRet' = CtRet("elements", NoKey, 0, 0, Elements(v), FALSE, EmptyMap)
    /\ UNCHANGED <<ct, other, saved, ddVars, cmVars>>

\* most_common(n); n > size() indexes before v.begin(): undefined behaviour,
\* modelled as reading arbitrary entries there, or as a fault with no result
CtOpMostCommon(n) ==
    /\ \E v \in Orders(ct) :
          IF n <= Len(v)
          THEN ctRet' = CtRet("most_common", NoKey, n, 0, MostCommon(v, n), FALSE, EmptyMap)
          ELSE \/ \E g \in [1..(n - Len(v)) -> Garbage] :
                     ctRet' = CtRet("most_common", NoKey, n, 0,
                                    MostCommon(v, Len(v)) \o g, TRUE, EmptyMap)
               \/ ctRet' = CtRet("most_common", NoKey, n, 0, <<>>, TRUE, EmptyMap)
    /\ UNCHANGED <<ct, other, saved, ddVars, cmVars>>

CtOpTotal ==
    /\ ctRet' = CtRet("total", NoKey, 0, Total(ct), <<>>, FALSE, EmptyMap)
    /\ UNCHANGED <<ct, other, saved, ddVars, cmVars>>

UpdLists == UNION {[1..n -> Keys] : n \in 0..MaxUpd}

\* Counter() or Counter(il)
InitCounter ==
    /\ ct \in AllMaps(Keys, Counts)
    /\ other = EmptyMap /\ saved = NoSaved /\ ctRet = CtIdleRet
    /\ DDIdle /\ CmIdle

NextCounter ==
    \/ \E k \in Keys : CtOpLookup(k)
    \/ \E l \in UpdLists : CtOpUpdate(l)
    \/ CtOpElements
    \/ \E n \in 0..MaxN : CtOpMostCommon(n)
    \/ CtOpTotal

SpecCounter == InitCounter /\ [][NextCounter]_vars

\* ---- operands of the Counter claims
Size(m) == Cardinality(DOMAIN m)

Occurrences(seq, k) == Cardinality({i \in 1..Len(seq) : seq[i] = k})

Positive(c) == IF c > 0 THEN c ELSE 0

RECURSIVE PositiveSum(_, _)
PositiveSum(m, ks) ==
    IF ks = {} THEN 0
    ELSE LET k == CHOOSE x \in ks : TRUE IN Positive(m[k]) + PositiveSum(m, ks \ {k})

\* r lists distinct stored entries of m, in non-increasing order of count
RankedEntries(r, m) ==
    /\ \A i \in 1..Len(r) : r[i].first \in DOMAIN m /\ r[i].second = m[r[i].first]
    /\ \A i, j \in 1..Len(r) : r[i].first = r[j].first => i = j
    /\ \A i, j \in 1..Len(r) : i < j => r[i].second >= r[j].second

\* C5: for 1 <= n <= size, most_common(n) returns n distinct stored entries
\* in non-increasing order of count, none smaller than an entry left out;
\* most_common(0) returns all stored entries in non-increasing order.
C5_MostCommonRanked ==
    (ctRet.op = "most_common" /\ ctRet.n <= Size(ct)) =>
        LET r == ctRet.seq
            m == IF ctRet.n = 0 THEN Size(ct) ELSE ctRet.n
        IN /\ Len(r) = m
           /\ RankedEntries(r, ct)
           /\ \A k \in DOMAIN ct :
                 (\A i \in 1..Len(r) : r[i].first /= k) =>
                     \A i \in 1..Len(r) : r[i].second >= ct[k]

\* a proper top-2 of three entries with three different counts
W_C5 ==
    /\ ctRet.op = "most_common" /\ ctRet.n = 2 /\ Size(ct) = 3
    /\ Len(ctRet.seq) = 2
    /\ ctRet.seq[1].second > ctRet.seq[2].second
    /\ \E k \in DOMAIN ct : ct[k] < ctRet.seq[2].second

\* C6: for n > size, most_common(n) returns all stored entries and makes no
\* out-of-bounds access.
C6_MostCommonBeyondSize ==
    (ctRet.op = "most_common" /\ ctRet.n > Size(ct)) =>
        /\ ~ctRet.oob
        /\ Len(ctRet.seq) = Size(ct)
        /\ RankedEntries(ctRet.seq, ct)

\* C7: a full traversal of elements() yields each stored element
\* max(count, 0) times, yields nothing else, and its length is the sum of
\* the positive counts.
C7_ElementsMultiset ==
    ctRet.op = "elements" =>
        /\ \A k \in Keys : Occurrences(ctRet.seq, k) = Positive(Cnt(ct, k))
        /\ \A i \in 1..Len(ctRet.seq) : ctRet.seq[i] \in DOMAIN ct
        /\ Len(ctRet.seq) = PositiveSum(ct, DOMAIN ct)

\* non-positive counts are stored next to positive ones, and only the
\* positive ones were yielded
W_C7 ==
    /\ ctRet.op = "elements"
    /\ Size(ct) = 3
    /\ \E k \in DOMAIN ct : ct[k] = 0
    /\ \E k \in DOMAIN ct : ct[k] < 0
    /\ \E k \in DOMAIN ct : ct[k] = 2
    /\ Len(ctRet.seq) = 2

\* C8 as stated: looking up the count of an element that is not stored
\* returns 0 and leaves the mapping unchanged.
C8_LookupDoesNotInsert ==
    [][(ctRet'.op = "lookup" /\ ctRet'.key \notin DOMAIN ct) =>
          (ctRet'.val = 0 /\ ct' = ct)]_vars

\* C8 amended: looking up the count of an element that is not stored
\* returns 0 and inserts an entry with count 0 for it; every other entry is
\* unchanged, so every count (absent read as 0) is unchanged and the number
\* of stored entries grows by one.
C8_LookupInsertsZero ==
    [][(ctRet'.op = "lookup" /\ ctRet'.key \notin DOMAIN ct) =>
          /\ ctRet'.val = 0
          /\ DOMAIN ct' = DOMAIN ct \cup {ctRet'.key}
          /\ ct'[ctRet'.key] = 0
          /\ \A k \in DOMAIN ct : ct'[k] = ct[k]
          /\ \A k \in Keys : Cnt(ct', k) = Cnt(ct, k)
          /\ Size(ct') = Size(ct) + 1]_vars

\* a lookup has returned 0 for a key that is now stored with count 0 next to
\* other entries
W_C8 ==
    /\ ctRet.op = "lookup" /\ ctRet.val = 0
    /\ ctRet.key \in DOMAIN ct /\ ct[ctRet.key] = 0
    /\ Size(ct) = 2

\* ---------------------------------------------- Counter combination
\* a += b
CtOpIAdd ==
    /\ InBounds(IAdd(ct, other))
    /\ saved' = [a |-> ct, b |-> other]
    /\ ct' = IAdd(ct, other)
    /\ ctRet' = CtRet("iadd", NoKey, 0, 0, <<>>, FALSE, EmptyMap)
    /\ UNCHANGED <<other, ddVars, cmVars>>

\* a -= b ; the history is kept only when this directly follows a += b
CtOpISub ==
    /\ InBounds(ISub(ct, other))
    /\ saved' = IF ctRet.op = "iadd" THEN saved ELSE NoSaved
    /\ ct' = ISub(ct, other)
    /\ ctRet' = CtRet("isub", NoKey, 0, 0, <<>>, FALSE, EmptyMap)
    /\ UNCHANGED <<other, ddVars, cmVars>>

\* a + b : Counter ct = *this; return ct += c;
CtOpPlus ==
    /\ InBounds(IAdd(ct, other))
    /\ ctRet' = CtRet("plus", NoKey, 0, 0, <<>>, FALSE, IAdd(ct, other))
    /\ saved' = NoSaved
    /\ UNCHANGED <<ct, other, ddVars, cmVars>>

\* a - b : Counter ct = *this; return ct -= c;
CtOpMinus ==
    /\ InBounds(ISub(ct, other))
    /\ ctRet' = CtRet("minus", NoKey, 0, 0, <<>>, FALSE, ISub(ct, other))
    /\ saved' = NoSaved
    /\ UNCHANGED <<ct, other, ddVars, cmVars>>

\* b.update({k})
CtOpOtherUpdate(k) ==
    /\ InBounds(Update(other, <<k>>))
    /\ other' = Update(other, <<k>>)
    /\ ctRet' = CtRet("other_update", k, 0, 0, <<>>, FALSE, EmptyMap)
    /\ saved' = NoSaved
    /\ UNCHANGED <<ct, ddVars, cmVars>>

InitCombine ==
    /\ ct \in AllMaps(Keys, Counts)
    /\ other \in AllMaps(OtherKeys, Counts)
    /\ saved = NoSaved /\ ctRet = CtIdleRet
    /\ DDIdle /\ CmIdle

NextCombine ==
    \/ CtOpIAdd
    \/ CtOpISub
    \/ CtOpPlus
    \/ CtOpMinus
    \/ \E k \in OtherKeys : CtOpOtherUpdate(k)

SpecCombine == InitCombine /\ [][NextCombine]_vars

\* C9: a += b directly followed by a -= b leaves every count of a (absent
\* read as 0) as it was before the two operations, and leaves b as it was.
C9_AddSubRoundTrip ==
    (ctRet.op = "isub" /\ ctRet.after = "iadd") =>
        /\ \A k \in Keys : Cnt(ct, k) = Cnt(saved.a, k)
        /\ other = saved.b

\* the round trip went through non-zero counts and left a zero entry in a
\* for a key a did not store before
W_C9 ==
    /\ ctRet.op = "isub" /\ ctRet.after = "iadd"
    /\ \E k \in DOMAIN other : other[k] > 0 /\ k \in DOMAIN saved.a /\ saved.a[k] /= 0
    /\ \E k \in DOMAIN other : other[k] < 0 /\ k \notin DOMAIN saved.a /\ k \in DOMAIN ct

\* ============================================================== ChainMap
\* layers[1] is `map` of the most derived ChainMap, Tail(layers) is its base B
CmRet(opname, k, idx, val, err, map, src) ==
    [op |-> opname, key |-> k, idx |-> idx, val |-> val, err |-> err, map |-> map, src |-> src]

\* at(k): try map.at(k); on out_of_range ask the base; the last base throws
RECURSIVE ChainAtBackFirst(_, _)
ChainAtBackFirst(ls, k) ==
    IF Len(ls) = 1
    THEN IF k \in DOMAIN ls[1] THEN [err |-> FALSE, val |-> ls[1][k]]
         ELSE [err |-> TRUE, val |-> None]
    ELSE LET r == ChainAtBackFirst(Tail(ls), k) IN
         IF ~r.err THEN r
         ELSE IF k \in DOMAIN ls[1] THEN [err |-> FALSE, val |-> ls[1][k]] ELSE r
RECURSIVE ChainAt(_, _)
ChainAt(ls, k) ==
    IF Len(ls) = 1
    THEN IF k \in DOMAIN ls[1] THEN [err |-> FALSE, val |-> ls[1][k]]
         ELSE [err |-> TRUE, val |-> None]
    ELSE IF k \in DOMAIN ls[1] THEN [err |-> FALSE, val |-> ls[1][k]]
         ELSE ChainAt(Tail(ls), k)

\* operator[](k): try { return map[k] = at(k); } catch { return map[k]; }
\* (at(k) is evaluated before map[k]); the one-layer case is map[k]
ChainIndexNoCopy(ls, k) == [ls EXCEPT ![1] = MapIndex(ls[1], k)]
ChainIndex(ls, k) ==
    IF Len(ls) = 1
    THEN [ls EXCEPT ![1] = MapIndex(ls[1], k)]
    ELSE LET r == ChainAt(ls, k) IN
         IF ~r.err
         THEN [ls EXCEPT ![1] = Put(MapIndex(ls[1], k), k, r.val)]
         ELSE [ls EXCEPT ![1] = MapIndex(ls[1], k)]

\* erase(k): map.erase(k)
ChainEraseAll(ls, k) == [i \in 1..Len(ls) |-> MapErase(ls[i], k)]
ChainErase(ls, k) == [ls EXCEPT ![1] = MapErase(ls[1], k)]

\* one_map(one): one.insert(map.begin(), map.end()); B::one_map(one);
RECURSIVE OneMapInto(_, _)
OneMapInto(ls, one) ==
    IF Len(ls) = 1 THEN InsertRange(one, ls[1])
    ELSE OneMapInto(Tail(ls), InsertRange(one, ls[1]))

\* one_map(): Map one; one_map(one); return one;  (one layer: return map)
OneMap(ls) == IF Len(ls) = 1 THEN ls[1] ELSE OneMapInto(ls, EmptyMap)

\* get_map(i): i ? B::get_map(i - 1) : map; the last base throws for i != 0.
\* pos is the position in layers of the map returned.
RECURSIVE ChainGetMap(_, _)
ChainGetMap(ls, i) ==
    IF Len(ls) = 1
    THEN IF i /= 0 THEN [err |-> TRUE, pos |-> 0] ELSE [err |-> FALSE, pos |-> 1]
    ELSE IF i /= 0
         THEN LET r == ChainGetMap(Tail(ls), i - 1) IN
              IF r.err THEN r ELSE [err |-> FALSE, pos |-> r.pos + 1]
         ELSE [err |-> FALSE, pos |-> 1]

\* new_child(new_map): {new_map, *this}
NewChild(ls, m) == <<m>> \o ls

\* cmp.at(k)
CmOpAt(k) ==
    LET r == ChainAt(layers, k) IN
    /\ cmRet' = CmRet("at", k, 0, r.val, r.err, EmptyMap, "none")
    /\ handle' = NoKey
    /\ UNCHANGED <<layers, ddVars, ctVars>>

\* V& h = cmp[k]
CmOpIndex(k) ==
    /\ layers' = ChainIndex(layers, k)
    /\ handle' = k
    /\ cmRet' = CmRet("index", k, 0, layers'[1][k], FALSE, EmptyMap,
                      IF k \in DOMAIN layers[1] THEN "front"
                      ELSE IF ~ChainAt(layers, k).err THEN "deeper" ELSE "default")
    /\ UNCHANGED <<ddVars, ctVars>>

\* h = v, through the reference operator[] returned
CmOpStore(v) ==
    /\ handle /= NoKey
    /\ layers' = [layers EXCEPT ![1] = Put(layers[1], handle, v)]
    /\ cmRet' = CmRet("store", handle, 0, v, FALSE, EmptyMap, "none")
    /\ UNCHANGED <<handle, ddVars, ctVars>>

\* cmp.erase(k)
CmOpErase(k) ==
    /\ layers' = ChainErase(layers, k)
    /\ handle' = NoKey
    /\ cmRet' = CmRet("erase", k, 0, IF k \in DOMAIN layers[1] THEN 1 ELSE 0,
                      FALSE, EmptyMap, "none")
    /\ UNCHANGED <<ddVars, ctVars>>

\* cmp.one_map()
CmOpOneMap ==
    /\ cmRet' = CmRet("one_map", NoKey, 0, None, FALSE, OneMap(layers), "none")
    /\ handle' = NoKey
    /\ UNCHANGED <<layers, ddVars, ctVars>>

\* cmp.get_map(i)[k] = v ; nothing is stored when get_map throws
CmOpGetMapStore(i, k, v) ==
    LET r == ChainGetMap(layers, i) IN
    /\ layers' = IF r.err THEN layers
                 ELSE [layers EXCEPT ![r.pos] = Put(layers[r.pos], k, v)]
    /\ cmRet' = CmRet("get_map", k, i, IF r.err THEN None ELSE r.pos, r.err, EmptyMap, "none")
    /\ handle' = NoKey
    /\ UNCHANGED <<ddVars, ctVars>>

\* cmp = cmp.new_child(m) : the model follows the child
CmOpNewChild(m) ==
    /\ Len(layers) < MaxLayers
    /\ layers' = NewChild(layers, m)
    /\ cmRet' = CmRet("new_child", NoKey, 0, None, FALSE, EmptyMap, "none")
    /\ handle' = NoKey
    /\ UNCHANGED <<ddVars, ctVars>>

ChainMaps == AllMaps(ChainKeys, ChainVals)

\* ChainMap(map) or ChainMap(map, maps...)
InitChain ==
    /\ layers \in UNION {[1..n -> ChainMaps] : n \in 1..2}
    /\ handle = NoKey
    /\ cmRet = CmIdleRet
    /\ DDIdle /\ CtIdle

NextChain ==
    \/ \E k \in ChainKeys : CmOpAt(k)
    \/ \E k \in ChainKeys : CmOpIndex(k)
    \/ \E v \in ChainVals : CmOpStore(v)
    \/ \E k \in ChainKeys : CmOpErase(k)
    \/ CmOpOneMap
    \/ \E i \in 0..MaxLayers, k \in ChainKeys, v \in ChainVals : CmOpGetMapStore(i, k, v)
    \/ \E m \in ChainMaps : CmOpNewChild(m)

SpecChain == InitChain /\ [][NextChain]_vars

\* ---- operands of the ChainMap claims
Holders(ls, k) == {i \in 1..Len(ls) : k \in DOMAIN ls[i]}

Lowest(S) == CHOOSE i \in S : \A j \in S : i <= j

\* C1: at(k) returns the value under k in the lowest-index layer containing
\* k, and fails exactly when no layer contains k.
C1_ReadFirstMatch ==
    cmRet.op = "at" =>
        LET H == Holders(layers, cmRet.key) IN
        /\ cmRet.err <=> H = {}
        /\ H /= {} => cmRet.val = layers[Lowest(H)][cmRet.key]

\* the key was found past a front layer that lacks it, while a still deeper
\* layer holds another value for it
W_C1 ==
    /\ cmRet.op = "at" /\ ~cmRet.err
    /\ Len(layers) = 3
    /\ Holders(layers, cmRet.key) = {2, 3}
    /\ layers[2][cmRet.key] /= layers[3][cmRet.key]
    /\ cmRet.val = layers[2][cmRet.key]

\* C2: at, operator[], a store through the returned reference and erase
\* leave the number of layers and every layer behind the front one unchanged.
C2_OnlyFrontChanges ==
    [][cmRet'.op \in {"at", "index", "store", "erase"} =>
          /\ Len(layers') = Len(layers)
          /\ \A i \in 2..Len(layers) : layers'[i] = layers[i]]_vars

\* erase removed the key from the front layer while the second layer still
\* holds it
W_C2 ==
    /\ cmRet.op = "erase" /\ cmRet.val = 1
    /\ Len(layers) >= 2
    /\ cmRet.key \notin DOMAIN layers[1]
    /\ cmRet.key \in DOMAIN layers[2]

\* C3: operator[](k) leaves k in the front layer and returns a reference to
\* that entry, whose value is the front layer's old value if it had k, else
\* the value of the first deeper layer that has k, else the default value.
C3_ReadWriteValue ==
    [][cmRet'.op = "index" =>
          LET k == cmRet'.key
              H == Holders(layers, k)
          IN /\ k \in DOMAIN layers'[1]
             /\ handle' = k
             /\ cmRet'.val = layers'[1][k]
             /\ layers'[1][k] = IF H = {} THEN IntDefault ELSE layers[Lowest(H)][k]]_vars

\* the value was copied into the front layer from the third layer
W_C3 ==
    /\ cmRet.op = "index" /\ cmRet.src = "deeper"
    /\ Len(layers) = 3
    /\ cmRet.key \notin DOMAIN layers[2]
    /\ cmRet.key \in DOMAIN layers[3]
    /\ cmRet.val = layers[3][cmRet.key]
    /\ cmRet.val /= IntDefault
    /\ layers[1][cmRet.key] = cmRet.val

\* C4: one_map() returns a mapping whose keys are the union of the layers'
\* keys, each with the value of the front-most layer defining it, and leaves
\* every layer unchanged.
C4_FlattenFrontWins ==
    [][cmRet'.op = "one_map" =>
          /\ layers' = layers
          /\ DOMAIN cmRet'.map = UNION {DOMAIN layers[i] : i \in 1..Len(layers)}
          /\ \A k \in DOMAIN cmRet'.map :
                /\ cmRet'.map[k] = layers[Lowest(Holders(layers, k))][k]
                /\ cmRet'.map[k] = ChainAt(layers, k).val]_vars

\* three layers were flattened; one key is shadowed by a different front
\* value, another comes from the back layer only
W_C4 ==
    /\ cmRet.op = "one_map"
    /\ Len(layers) = 3
    /\ \E k \in ChainKeys : Holders(layers, k) = {1, 3}
                            /\ layers[1][k] /= layers[3][k]
                            /\ cmRet.map[k] = layers[1][k]
    /\ \E k \in ChainKeys : Holders(layers, k) = {3} /\ cmRet.map[k] = layers[3][k]

====
